---- MODULE Spec2Model ----
(***************************************************************************)
(* Model of adm_index_exporter.py: the crawl-and-export workflow of        *)
(* main(), discover_all_grids(), export_grid_history(),                   *)
(* rename_latest_download() and the completion ledger, together with the  *)
(* two asynchronous parties the code synchronises with by sleeping: the   *)
(* page that populates the dependent dropdowns and the browser that       *)
(* writes the download under a fixed name.                                *)
(*                                                                         *)
(* Strings that the code strips or compares are sequences of one-char     *)
(* strings, so that strip() and the text/value distinction of an <option> *)
(* are computed and not assumed.                                           *)
(***************************************************************************)
EXTENDS Integers, Sequences, FiniteSets, TLC

VARIABLES
    pc,          \* position of main()
    run,         \* number of invocations of main() started so far
    site,        \* the remote UI: option trees, year options, export control
    ledger,      \* the text of LOG_DONE (_completed_grids.csv)
    files,       \* DOWNLOAD_DIR: file name -> content record
    session,     \* the driver of driver_ctx(): "none", "open", "closed"
    selState,    \* value selected in select#State
    selCounty,   \* value selected in select#County
    selGrid,     \* value selected in select#GridId
    countyOpts,  \* <option>s currently in select#County
    gridOpts,    \* <option>s currently in select#GridId
    dirty,       \* population of the dependent dropdowns still pending
    inflight,    \* downloads requested by a click whose file has not appeared
    writing,     \* names of the files the browser is still writing
    done,        \* main: done = get_completed()
    stateQ,      \* discover_all_grids: rest of the loop over states
    countyQ,     \* discover_all_grids: rest of the loop over counties
    all_grids,   \* discover_all_grids: all_grids
    grids,       \* main: grids
    idx,         \* main: position of the loop "for gid in grids"
    polls,       \* rename_latest_download: iterations of the wait loop so far
    attempted,   \* leaves whose export was called in this run, in call order
    skipped,     \* leaves skipped in this run because they were in done
    failed,      \* <<leaf, error>> for every export that raised in this run
    ledgerAtStart, \* the text LOG_DONE held when this run started
    lastTrig,    \* the last click on the export control: leaf and context
    renamed,     \* leaves whose final-named file was written in this run
    marked,      \* the arguments of all calls of mark_completed, in call order
    stopped,     \* leaves at which the process was stopped between the rename
                 \* and the ledger append
    returned,    \* <<grid_id, path>> of every return of export_grid_history
    throttled    \* time.sleep(1.0) has run since the last export was called

vars == <<pc, run, site, ledger, files, session, selState, selCounty, selGrid,
          countyOpts, gridOpts, dirty, inflight, writing, done, stateQ,
          countyQ, all_grids, grids, idx, polls, attempted, skipped, failed,
          ledgerAtStart, lastTrig, renamed, marked, stopped,
                   returned, throttled>>

-----------------------------------------------------------------------------
(* Bounds and program constants *)

MaxRuns == 2

START_YEAR == 1940
END_YEAR == 2025
retries == 60

-----------------------------------------------------------------------------
(* Strings *)

None == <<>>

RECURSIVE LStrip(_)
LStrip(s) == IF s # <<>> /\ Head(s) = " " THEN LStrip(Tail(s)) ELSE s

RECURSIVE RStrip(_)
RStrip(s) ==
    IF s # <<>> /\ s[Len(s)] = " " THEN RStrip(SubSeq(s, 1, Len(s) - 1)) ELSE s

\* str.strip()
Strip(s) == RStrip(LStrip(s))

Range(q) == {q[i] : i \in DOMAIN q}

-----------------------------------------------------------------------------
(* The remote UI *)

Opt(t, v) == [text |-> t, value |-> v]

\* the placeholder option such as "Select State"
Placeholder == Opt(<<"-">>, <<>>)

StA == Opt(<<"A">>, <<"A">>)
StB == Opt(<<"B">>, <<"B">>)
CoX == Opt(<<"X">>, <<"X">>)
CoY == Opt(<<"Y">>, <<"Y">>)
G1 == Opt(<<"1">>, <<"1">>)
G2 == Opt(<<"2">>, <<"2">>)
\* the same leaf as G1, its value attribute padded with a blank
G1pad == Opt(<<"1">>, <<" ", "1">>)
\* an option whose visible text is not its value
G3as1 == Opt(<<"1">>, <<"3">>)

\* two states with one county each; leaf 2 is exposed under both
SiteDup ==
    [states |-> <<Placeholder, StA, StB>>,
     counties |-> (<<"A">> :> <<Placeholder, CoX>>) @@ (<<"B">> :> <<Placeholder, CoY>>),
     grids |-> (<< <<"A">>, <<"X">> >> :> <<Placeholder, G1, G2>>)
               @@ (<< <<"B">>, <<"Y">> >> :> <<Placeholder, G2>>),
     startYears |-> {1940, 1948}, endYears |-> {2024, 2025}, exportBtn |-> TRUE]

\* one state with two counties; a padded value, and a text that differs
\* from its value
SiteText ==
    [states |-> <<Placeholder, StA>>,
     counties |-> (<<"A">> :> <<Placeholder, CoX, CoY>>),
     grids |-> (<< <<"A">>, <<"X">> >> :> <<Placeholder, G1pad, G2>>)
               @@ (<< <<"A">>, <<"Y">> >> :> <<Placeholder, G3as1, G2>>),
     startYears |-> {1940, 1948}, endYears |-> {2024, 2025}, exportBtn |-> TRUE]

\* one county with two leaves
SiteOne ==
    [states |-> <<Placeholder, StA>>,
     counties |-> (<<"A">> :> <<Placeholder, CoX>>),
     grids |-> (<< <<"A">>, <<"X">> >> :> <<Placeholder, G1, G2>>),
     startYears |-> {1940, 1948}, endYears |-> {2024, 2025}, exportBtn |-> TRUE]

\* the UI offers no start year 1940
SiteNoStart == [SiteOne EXCEPT !.startYears = {1948}]

\* the UI offers no end year 2025
SiteNoEnd == [SiteOne EXCEPT !.endYears = {2024}]

\* the page has no "Export to CSV" control
SiteNoBtn == [SiteOne EXCEPT !.exportBtn = FALSE]

\* leaves whose identifiers hold a comma and a double quote
Gcomma == Opt(<<"1", ",", "2">>, <<"1", ",", "2">>)
Gquote == Opt(<<"2", "\"">>, <<"2", "\"">>)

\* one county whose leaf identifiers need quoting in a csv file
SiteCsv == [SiteOne EXCEPT !.grids = (<< <<"A">>, <<"X">> >> :> <<Placeholder, Gcomma, Gquote>>)]

Sites == {SiteDup, SiteText, SiteOne, SiteNoStart, SiteNoEnd, SiteNoBtn, SiteCsv}

CountiesOf(s) == IF s \in DOMAIN site.counties THEN site.counties[s] ELSE <<>>

GridsOf(s, c) == IF <<s, c>> \in DOMAIN site.grids THEN site.grids[<<s, c>>] ELSE <<>>

\* the (state, county) pairs under which the UI exposes leaf g
ParentContexts(g) ==
    {sc \in DOMAIN site.grids :
        \E i \in DOMAIN site.grids[sc] : Strip(site.grids[sc][i].value) = g}

\* every leaf value the UI exposes
AllLeaves ==
    UNION {{Strip(o.value) : o \in Range(site.grids[sc])} :
              sc \in DOMAIN site.grids} \ {<<>>}

-----------------------------------------------------------------------------
(* Pure functions of the program *)

HasValue(o) == Strip(o.value) # <<>>

\* get_select_options: the options whose value attribute is not blank
get_select_options(opts) == SelectSeq(opts, HasValue)

\* lines 146-149: the stripped, non-empty values of the options read
GridValues(opts) ==
    LET vals == [i \in DOMAIN opts |-> Strip(opts[i].value)]
        NonEmpty(v) == v # <<>>
    IN SelectSeq(vals, NonEmpty)

RECURSIVE DedupLoop(_, _, _)
DedupLoop(rest, seen, ordered) ==
    IF rest = <<>> THEN ordered
    ELSE IF Head(rest) \notin seen
         THEN DedupLoop(Tail(rest), seen \cup {Head(rest)}, Append(ordered, Head(rest)))
         ELSE DedupLoop(Tail(rest), seen, ordered)

\* a de-duplication that forgets what it has seen
DedupForgets(all) == all

\* lines 150-156: de-duplicate while preserving order
Dedup(all) == DedupLoop(all, {}, <<>>)

\* Select.select_by_value: position of the first option with that value, 0
\* when there is none (NoSuchElementException)
ByValue(opts, v) ==
    IF \E i \in DOMAIN opts : opts[i].value = v
    THEN CHOOSE i \in DOMAIN opts :
            /\ opts[i].value = v
            /\ \A j \in 1..(i - 1) : opts[j].value # v
    ELSE 0

\* Select.select_by_visible_text: position of the first option whose
\* normalised text is the argument, 0 when there is none
ByVisibleText(opts, t) ==
    IF \E i \in DOMAIN opts : Strip(opts[i].text) = t
    THEN CHOOSE i \in DOMAIN opts :
            /\ Strip(opts[i].text) = t
            /\ \A j \in 1..(i - 1) : Strip(opts[j].text) # t
    ELSE 0

-----------------------------------------------------------------------------
(* The csv module, default dialect: delimiter ",", quotechar '"',          *)
(* doublequote, QUOTE_MINIMAL, lineterminator "\r\n"                       *)

Quote == "\""
Comma == ","
LineEnds == {"\r", "\n"}

\* QUOTE_MINIMAL: a field is quoted when it holds the delimiter, the
\* quotechar or a character of the line terminator
NeedsQuote(field) == \E i \in DOMAIN field : field[i] \in {Comma, Quote} \cup LineEnds

RECURSIVE DoubleQuotes(_)
DoubleQuotes(field) ==
    IF field = <<>> THEN <<>>
    ELSE IF Head(field) = Quote
         THEN <<Quote, Quote>> \o DoubleQuotes(Tail(field))
         ELSE <<Head(field)>> \o DoubleQuotes(Tail(field))

WriteField(field) ==
    IF NeedsQuote(field) THEN <<Quote>> \o DoubleQuotes(field) \o <<Quote>> ELSE field

RECURSIVE JoinFields(_)
JoinFields(row) ==
    IF row = <<>> THEN <<>>
    ELSE IF Len(row) = 1 THEN WriteField(row[1])
    ELSE WriteField(Head(row)) \o <<Comma>> \o JoinFields(Tail(row))

\* csv.writer(f).writerow(row): the text written; a row of one empty field
\* is written as a pair of quotes
writerow(row) ==
    (IF row = << <<>> >> THEN <<Quote, Quote>> ELSE JoinFields(row)) \o <<"\r", "\n">>

\* the parser state after a line end character: after "\r" the line may
\* still take a "\n"; after "\n" the line is over
AfterLineEnd(c) == IF c = "\r" THEN "EAT_CR" ELSE "END_OF_LINE"

\* csv.reader over the text of a file opened with newline="": the rows, each
\* a sequence of fields. The file yields its lines, ended by "\r", "\n" or
\* "\r\n", and the parser eats the line end; st is the state of the parser.
\* A line end inside a quoted field is part of the field; an empty line is
\* an empty row.
RECURSIVE reader(_, _, _, _, _)
reader(text, st, field, row, rows) ==
    IF text = <<>>
    THEN CASE st = "START_RECORD" -> rows
           [] st \in {"EAT_CR", "END_OF_LINE"} -> Append(rows, row)
           [] OTHER -> Append(rows, Append(row, field))
    ELSE LET c == Head(text)
             rest == Tail(text)
         IN CASE st = "START_RECORD" ->
                   IF c \in LineEnds
                   THEN reader(rest, AfterLineEnd(c), <<>>, <<>>, rows)
                   ELSE reader(text, "START_FIELD", <<>>, <<>>, rows)
              [] st = "START_FIELD" ->
                   IF c \in LineEnds
                   THEN reader(rest, AfterLineEnd(c), <<>>, Append(row, <<>>), rows)
                   ELSE IF c = Quote
                   THEN reader(rest, "IN_QUOTED_FIELD", <<>>, row, rows)
                   ELSE IF c = Comma
                   THEN reader(rest, "START_FIELD", <<>>, Append(row, <<>>), rows)
                   ELSE reader(rest, "IN_FIELD", <<c>>, row, rows)
              [] st = "IN_FIELD" ->
                   IF c \in LineEnds
                   THEN reader(rest, AfterLineEnd(c), <<>>, Append(row, field), rows)
                   ELSE IF c = Comma
                   THEN reader(rest, "START_FIELD", <<>>, Append(row, field), rows)
                   ELSE reader(rest, "IN_FIELD", Append(field, c), row, rows)
              [] st = "IN_QUOTED_FIELD" ->
                   IF c = Quote
                   THEN reader(rest, "QUOTE_IN_QUOTED_FIELD", field, row, rows)
                   ELSE reader(rest, "IN_QUOTED_FIELD", Append(field, c), row, rows)
              [] st = "QUOTE_IN_QUOTED_FIELD" ->
                   IF c = Quote
                   THEN reader(rest, "IN_QUOTED_FIELD", Append(field, c), row, rows)
                   ELSE IF c = Comma
                   THEN reader(rest, "START_FIELD", <<>>, Append(row, field), rows)
                   ELSE IF c \in LineEnds
                   THEN reader(rest, AfterLineEnd(c), <<>>, Append(row, field), rows)
                   ELSE reader(rest, "IN_FIELD", Append(field, c), row, rows)
              [] st = "EAT_CR" /\ c = "\n" ->
                   reader(rest, "END_OF_LINE", field, row, rows)
              [] OTHER ->
                   reader(text, "START_RECORD", <<>>, <<>>, Append(rows, row))

\* the rows csv.reader yields for a file
ReadRows(text) == reader(text, "START_RECORD", <<>>, <<>>, <<>>)

\* a reader that takes the first row for a header
get_completedSkipsFirst(text) ==
    LET rows == ReadRows(text)
    IN {rows[i][1] : i \in {j \in DOMAIN rows : j > 1 /\ rows[j] # <<>>}}

\* get_completed: the first field of every non-empty row
get_completed(text) == {r[1] : r \in {x \in Range(ReadRows(text)) : x # <<>>}}

\* a writer that joins the fields itself: f.write(grid_id + "\r\n")
mark_completedUnquoted(text, grid_id) == text \o grid_id \o <<"\r", "\n">>

\* a writer that opens the file with mode "w"
mark_completedTruncates(text, grid_id) == writerow(<<grid_id>>)

\* a ledger whose newest row comes first
mark_completedPrepends(text, grid_id) == writerow(<<grid_id>>) \o text

\* mark_completed: csv.writer(f).writerow([grid_id]) on a file opened "a"
mark_completed(text, grid_id) == text \o writerow(<<grid_id>>)

\* tmp_name of rename_latest_download
TmpName == <<"HistoricalIndexes.csv">>

\* final_name = f"grid_{grid_id}_{start_year}_{end_year}.csv"
FinalName(grid_id, y0, y1) == <<"grid_", grid_id, "_", y0, "_", y1, ".csv">>

Exists(name) == name \in DOMAIN files

\* a rename that keeps an existing dst and stores src under a second name
ReplaceKeepsBoth(fs, src, dst) ==
    LET to == IF dst \in DOMAIN fs THEN dst \o <<"(1)">> ELSE dst IN
    [n \in (DOMAIN fs \ {src}) \cup {to} |-> IF n = to THEN fs[src] ELSE fs[n]]

\* src.replace(dst): dst gets the content of src, src is gone
Replace(fs, src, dst) ==
    [n \in (DOMAIN fs \ {src}) \cup {dst} |-> IF n = dst THEN fs[src] ELSE fs[n]]

\* a file the browser writes follows its rename (the writer holds the file,
\* not its name)
FollowRename(ws, src, dst) == IF src \in ws THEN (ws \ {src}) \cup {dst} ELSE ws

-----------------------------------------------------------------------------
(* State *)

uiVars == <<selState, selCounty, selGrid, countyOpts, gridOpts, dirty>>
discVars == <<stateQ, countyQ, all_grids>>
diskVars == <<ledger, files>>
histVars == <<attempted, skipped, failed, ledgerAtStart, lastTrig, renamed,
              marked, stopped, returned, throttled>>

\* the leaf of the current iteration of "for gid in grids"
cur == grids[idx]

FailedLeaves == {f[1] : f \in failed}

Init ==
    /\ pc = "idle"
    /\ run = 0
    /\ site \in Sites
    /\ ledger = <<>>
    /\ files = <<>>
    /\ session = "none"
    /\ selState = None
    /\ selCounty = None
    /\ selGrid = None
    /\ countyOpts = <<>>
    /\ gridOpts = <<>>
    /\ dirty = "none"
    /\ inflight = {}
    /\ writing = {}
    /\ done = {}
    /\ stateQ = <<>>
    /\ countyQ = <<>>
    /\ all_grids = <<>>
    /\ grids = <<>>
    /\ idx = 1
    /\ polls = 0
    /\ attempted = <<>>
    /\ skipped = {}
    /\ failed = {}
    /\ ledgerAtStart = <<>>
    /\ lastTrig = None
    /\ renamed = {}
    /\ marked = <<>>
    /\ stopped = {}
    /\ returned = {}
    /\ throttled = FALSE

-----------------------------------------------------------------------------
(* main: start of a run, the session *)

\* line 159: done = get_completed(), at the start of an invocation of main()
StartRun ==
    /\ pc \in {"idle", "done", "aborted", "stopped"}
    /\ run < MaxRuns
    /\ run' = run + 1
    /\ done' = get_completed(ledger)
    /\ pc' = "open"
    /\ grids' = <<>>
    /\ idx' = 1
    /\ polls' = 0
    /\ stateQ' = <<>>
    /\ countyQ' = <<>>
    /\ all_grids' = <<>>
    /\ attempted' = <<>>
    /\ skipped' = {}
    /\ failed' = {}
    /\ ledgerAtStart' = ledger
    /\ lastTrig' = None
    /\ renamed' = {}
    /\ session' = "none"
    /\ throttled' = FALSE
    /\ UNCHANGED <<site, ledger, files, uiVars, inflight, writing, marked,
                   stopped, returned>>

\* lines 160-163: the driver is made and the page loaded: a fresh form
OpenSession ==
    /\ pc = "open"
    /\ session' = "open"
    /\ selState' = None
    /\ selCounty' = None
    /\ selGrid' = None
    /\ countyOpts' = <<Placeholder>>
    /\ gridOpts' = <<Placeholder>>
    /\ dirty' = "none"
    /\ pc' = "discover"
    /\ UNCHANGED <<run, site, diskVars, inflight, writing, done, discVars,
                   grids, idx, polls, histVars>>

\* lines 38 and 161: make_driver() raises (no driver to quit), or d.get()
\* raises and the finally clause of driver_ctx quits the driver
SessionFails ==
    /\ pc = "open"
    /\ session' \in {"none", "closed"}
    /\ pc' = "aborted"
    /\ UNCHANGED <<run, site, diskVars, uiVars, inflight, writing, done,
                   discVars, grids, idx, polls, histVars>>

\* an exit that leaves the browser running
QuitLeaks ==
    /\ UNCHANGED <<session, inflight, writing>>

\* line 42: d.quit() ends the browser and with it the downloads it had not
\* finished
Quit ==
    /\ session' = "closed"
    /\ inflight' = {}
    /\ writing' = {}

-----------------------------------------------------------------------------
(* discover_all_grids *)

\* lines 132-137
DiscBegin ==
    /\ pc = "discover"
    /\ stateQ' = get_select_options(site.states)
    /\ countyQ' = <<>>
    /\ all_grids' = <<>>
    /\ pc' = "disc_state"
    /\ UNCHANGED <<run, site, diskVars, session, uiVars, inflight, writing,
                   done, grids, idx, polls, histVars>>

\* lines 133-135: wait_for raises TimeoutException; nothing catches it in
\* discover_all_grids or main, so the run ends through driver_ctx's finally
DiscRaises ==
    /\ pc = "discover"
    /\ Quit
    /\ pc' = "aborted"
    /\ UNCHANGED <<run, site, diskVars, uiVars, done, discVars, grids, idx,
                   polls, histVars>>

\* lines 138-140: next state of the loop is selected; the page starts to
\* load its counties
DiscSelectState ==
    /\ pc = "disc_state"
    /\ stateQ # <<>>
    /\ selState' = Head(stateQ).value
    /\ dirty' = "state"
    /\ stateQ' = Tail(stateQ)
    /\ pc' = "disc_counties"
    /\ UNCHANGED <<run, site, diskVars, session, selCounty, selGrid,
                   countyOpts, gridOpts, inflight, writing, done, countyQ,
                   all_grids, grids, idx, polls, histVars>>

\* line 141: the county options are read after the fixed sleep
DiscReadCounties ==
    /\ pc = "disc_counties"
    /\ countyQ' = get_select_options(countyOpts)
    /\ pc' = "disc_county"
    /\ UNCHANGED <<run, site, diskVars, session, uiVars, inflight, writing,
                   done, stateQ, all_grids, grids, idx, polls, histVars>>

\* lines 141-143: next county of the loop is selected by value; the page
\* starts to load its grids
DiscSelectCounty ==
    /\ pc = "disc_county"
    /\ countyQ # <<>>
    /\ ByValue(countyOpts, Head(countyQ).value) # 0
    /\ selCounty' = Head(countyQ).value
    /\ dirty' = IF dirty = "state" THEN "state" ELSE "county"
    /\ countyQ' = Tail(countyQ)
    /\ pc' = "disc_grids"
    /\ UNCHANGED <<run, site, diskVars, session, selState, selGrid,
                   countyOpts, gridOpts, inflight, writing, done, stateQ,
                   all_grids, grids, idx, polls, histVars>>

\* line 142: the option read earlier is no longer in the dropdown:
\* select_by_value raises and the run ends
DiscSelectCountyRaises ==
    /\ pc = "disc_county"
    /\ countyQ # <<>>
    /\ ByValue(countyOpts, Head(countyQ).value) = 0
    /\ Quit
    /\ pc' = "aborted"
    /\ UNCHANGED <<run, site, diskVars, uiVars, done, discVars, grids, idx,
                   polls, histVars>>

\* line 141: the loop over the counties of this state is over
DiscCountiesDone ==
    /\ pc = "disc_county"
    /\ countyQ = <<>>
    /\ pc' = "disc_state"
    /\ UNCHANGED <<run, site, diskVars, session, uiVars, inflight, writing,
                   done, discVars, grids, idx, polls, histVars>>

\* lines 145-149: the grid options are read after the fixed sleep
DiscReadGrids ==
    /\ pc = "disc_grids"
    /\ all_grids' = all_grids \o GridValues(get_select_options(gridOpts))
    /\ pc' = "disc_county"
    /\ UNCHANGED <<run, site, diskVars, session, uiVars, inflight, writing,
                   done, stateQ, countyQ, grids, idx, polls, histVars>>

\* lines 150-156 and 166-167: the loop over the states is over
DiscReturn ==
    /\ pc = "disc_state"
    /\ stateQ = <<>>
    /\ grids' = Dedup(all_grids)
    /\ idx' = 1
    /\ pc' = "loop"
    /\ UNCHANGED <<run, site, diskVars, session, uiVars, inflight, writing,
                   done, discVars, polls, histVars>>

-----------------------------------------------------------------------------
(* main: the loop over the discovered leaves *)

\* a handler that tries the same leaf again
LeafFailsRetries(kind) ==
    /\ failed' = failed \cup {<<cur, kind>>}
    /\ idx' = idx
    /\ pc' = "loop"
    /\ UNCHANGED ledger

\* a handler that ends the loop instead of going on to the next leaf
LeafFailsBreaks(kind) ==
    /\ failed' = failed \cup {<<cur, kind>>}
    /\ idx' = Len(grids) + 1
    /\ pc' = "loop"
    /\ UNCHANGED ledger

\* a handler that records the leaf although its export raised
LeafFailsMarks(kind) ==
    /\ failed' = failed \cup {<<cur, kind>>}
    /\ idx' = idx + 1
    /\ pc' = "loop"
    /\ ledger' = mark_completed(ledger, cur)

\* lines 178-180: the except clause: a warning, and on to the next leaf
LeafFails(kind) ==
    /\ failed' = failed \cup {<<cur, kind>>}
    /\ idx' = idx + 1
    /\ pc' = "loop"
    /\ UNCHANGED ledger

\* lines 170-172: a leaf of the ledger is skipped
LoopSkip ==
    /\ pc = "loop"
    /\ idx <= Len(grids)
    /\ cur \in done
    /\ skipped' = skipped \cup {cur}
    /\ idx' = idx + 1
    /\ UNCHANGED <<pc, run, site, diskVars, session, uiVars, inflight,
                   writing, done, discVars, grids, polls, attempted, failed,
                   ledgerAtStart, lastTrig, renamed, marked, stopped,
                   returned, throttled>>

\* lines 170-174: export_grid_history is called for the next leaf
LoopExport ==
    /\ pc = "loop"
    /\ idx <= Len(grids)
    /\ cur \notin done
    /\ attempted' = Append(attempted, cur)
    /\ throttled' = FALSE
    /\ pc' = "exp_select"
    /\ UNCHANGED <<run, site, diskVars, session, uiVars, inflight, writing,
                   done, discVars, grids, idx, polls, skipped, failed,
                   ledgerAtStart, lastTrig, renamed, marked, stopped,
                   returned>>

\* line 170 and driver_ctx: the loop is over, the with block is left and
\* the driver quits
LoopEnd ==
    /\ pc = "loop"
    /\ idx > Len(grids)
    /\ Quit
    /\ pc' = "done"
    /\ UNCHANGED <<run, site, diskVars, uiVars, done, discVars, grids, idx,
                   polls, histVars>>

-----------------------------------------------------------------------------
(* export_grid_history *)

\* lines 104-113: the grid is selected by visible text in the grid dropdown
\* as it is; the state and the county are not selected
ExpSelect ==
    /\ pc = "exp_select"
    /\ LET i == ByVisibleText(gridOpts, cur) IN
         IF i # 0
         THEN /\ selGrid' = gridOpts[i].value
              /\ pc' = "exp_years"
              /\ UNCHANGED <<idx, failed, ledger>>
         ELSE /\ LeafFails("select")
              /\ UNCHANGED selGrid
    /\ UNCHANGED <<run, site, files, session, selState, selCounty,
                   countyOpts, gridOpts, dirty, inflight, writing, done,
                   discVars, grids, polls, attempted, skipped, ledgerAtStart, lastTrig,
                   renamed, marked, stopped, returned, throttled>>

\* set_years, lines 62-70: select_by_visible_text(str(year)) on both selects
set_years(start_year, end_year) ==
    start_year \in site.startYears /\ end_year \in site.endYears

\* an export that goes on to the click whatever set_years did
ExpYearsClicksAnyway ==
    /\ pc = "exp_years"
    /\ pc' = "exp_click"
    /\ UNCHANGED <<idx, failed, ledger>>
    /\ UNCHANGED <<run, site, files, session, uiVars, inflight, writing,
                   done, discVars, grids, polls, attempted, skipped,
                   ledgerAtStart, lastTrig, renamed, marked, stopped,
                   returned, throttled>>

\* line 116
ExpYears ==
    /\ pc = "exp_years"
    /\ IF set_years(START_YEAR, END_YEAR)
       THEN /\ pc' = "exp_click"
            /\ UNCHANGED <<idx, failed, ledger>>
       ELSE LeafFails("years")
    /\ UNCHANGED <<run, site, files, session, uiVars, inflight, writing,
                   done, discVars, grids, polls, attempted, skipped,
                   ledgerAtStart, lastTrig, renamed, marked, stopped,
                   returned, throttled>>

\* lines 120-123: the export control is clicked, which asks the browser for
\* a download; RuntimeError when the page has no such control
ExpClick ==
    /\ pc = "exp_click"
    /\ IF site.exportBtn
       THEN /\ inflight' = inflight \cup {cur}
            /\ lastTrig' = [gid |-> cur, state |-> selState,
                            county |-> selCounty, grid |-> selGrid]
            /\ polls' = 0
            /\ pc' = "poll"
            /\ UNCHANGED <<idx, failed, ledger>>
       ELSE /\ LeafFails("button")
            /\ UNCHANGED <<inflight, lastTrig, polls>>
    /\ UNCHANGED <<run, site, files, session, uiVars, writing, done,
                   discVars, grids, attempted, skipped, ledgerAtStart,
                   renamed, marked, stopped, returned, throttled>>

-----------------------------------------------------------------------------
(* rename_latest_download *)

\* a wait loop without a bound on its iterations
PollSleepUnbounded ==
    /\ pc = "poll"
    /\ ~Exists(TmpName)
    /\ polls' = polls + 1
    /\ UNCHANGED <<pc, run, site, diskVars, session, uiVars, inflight,
                   writing, done, discVars, grids, idx, histVars>>

\* lines 88-91: one iteration of the wait loop that does not find the file
PollSleep ==
    /\ pc = "poll"
    /\ polls < retries
    /\ ~Exists(TmpName)
    /\ polls' = polls + 1
    /\ UNCHANGED <<pc, run, site, diskVars, session, uiVars, inflight,
                   writing, done, discVars, grids, idx, histVars>>

\* lines 88-90: the loop ends, by break or after its last iteration; its
\* counter is not read again
PollEnd ==
    /\ pc = "poll"
    /\ polls = retries \/ Exists(TmpName)
    /\ polls' = 0
    /\ pc' = "check"
    /\ UNCHANGED <<run, site, diskVars, session, uiVars, inflight, writing,
                   done, discVars, grids, idx, histVars>>

\* lines 92-93
CheckExists ==
    /\ pc = "check"
    /\ IF Exists(TmpName)
       THEN /\ pc' = "rename"
            /\ UNCHANGED <<idx, failed, ledger>>
       ELSE LeafFails("timeout")
    /\ UNCHANGED <<run, site, files, session, uiVars, inflight, writing,
                   done, discVars, grids, polls, attempted, skipped,
                   ledgerAtStart, lastTrig, renamed, marked, stopped,
                   returned, throttled>>

\* rename_latest_download called without final_name: line 100 returns the
\* fixed-name file and nothing is moved
RenameWithoutFinalName ==
    /\ pc = "rename"
    /\ pc' = "mark"
    /\ UNCHANGED <<run, site, ledger, files, writing, session, uiVars,
                   inflight, done, discVars, grids, idx, polls, histVars>>

\* a rename to a name that carries the number of the run
RenameNumbered ==
    /\ pc = "rename"
    /\ LET dst == <<"grid_", cur, "_", START_YEAR, "_", END_YEAR, "_", run,
                    ".csv">> IN
         /\ files' = Replace(files, TmpName, dst)
         /\ writing' = FollowRename(writing, TmpName, dst)
         /\ returned' = returned \cup {<<cur, dst>>}
    /\ renamed' = renamed \cup {cur}
    /\ pc' = "mark"
    /\ UNCHANGED <<run, site, ledger, session, uiVars, inflight, done,
                   discVars, grids, idx, polls, attempted, skipped, failed,
                   ledgerAtStart, lastTrig, marked, stopped, throttled>>

\* lines 94-99 and 126-128: after the settle sleep the file is moved to its
\* final name, which export_grid_history returns
Rename ==
    /\ pc = "rename"
    /\ LET dst == FinalName(cur, START_YEAR, END_YEAR) IN
         /\ files' = Replace(files, TmpName, dst)
         /\ writing' = FollowRename(writing, TmpName, dst)
         /\ returned' = returned \cup {<<cur, dst>>}
    /\ renamed' = renamed \cup {cur}
    /\ pc' = "mark"
    /\ UNCHANGED <<run, site, ledger, session, uiVars, inflight, done,
                   discVars, grids, idx, polls, attempted, skipped, failed,
                   ledgerAtStart, lastTrig, marked, stopped, throttled>>

\* lines 175-177: the leaf is appended to the ledger, then the throttle
\* sleep runs
Mark ==
    /\ pc = "mark"
    /\ ledger' = mark_completed(ledger, cur)
    /\ marked' = Append(marked, cur)
    /\ throttled' = TRUE
    /\ idx' = idx + 1
    /\ pc' = "loop"
    /\ UNCHANGED <<run, site, files, session, uiVars, inflight, writing,
                   done, discVars, grids, polls, attempted, skipped, failed,
                   ledgerAtStart, lastTrig, renamed, stopped, returned>>

-----------------------------------------------------------------------------
(* The page and the browser *)

\* the page finishes loading the dropdowns that depend on the last state
\* or county selected (lines 110-111, and the sleeps of lines 140 and 143)
UiPopulate ==
    /\ session = "open"
    /\ dirty # "none"
    /\ IF dirty = "state"
       THEN /\ countyOpts' = CountiesOf(selState)
            /\ selCounty' = None
            /\ gridOpts' = <<Placeholder>>
       ELSE /\ gridOpts' = GridsOf(selState, selCounty)
            /\ UNCHANGED <<countyOpts, selCounty>>
    /\ selGrid' = None
    /\ dirty' = "none"
    /\ UNCHANGED <<pc, run, site, diskVars, session, selState, inflight,
                   writing, done, discVars, grids, idx, polls, histVars>>

\* the browser starts to write a requested download under the fixed name
\* (lines 85-87); the file appears whole or still being written (line 96).
\* When the fixed name is taken the browser saves under another name, which
\* the program never reads.
DownloadAppears ==
    /\ session = "open"
    /\ \E g \in inflight :
         /\ inflight' = inflight \ {g}
         /\ IF Exists(TmpName)
            THEN UNCHANGED <<files, writing>>
            ELSE \E whole \in BOOLEAN :
                   /\ files' = (TmpName :> [gid |-> g, complete |-> whole,
                                            run |-> run]) @@ files
                   /\ writing' = IF whole THEN writing ELSE writing \cup {TmpName}
    /\ UNCHANGED <<pc, run, site, ledger, session, uiVars, done, discVars,
                   grids, idx, polls, histVars>>

\* the process is stopped from outside after the file was moved to its
\* final name (line 98) and before mark_completed (line 176); no finally
\* clause runs, and the browser stops with the process
Stop ==
    /\ pc = "mark"
    /\ pc' = "stopped"
    /\ stopped' = stopped \cup {cur}
    /\ session' = "killed"
    /\ inflight' = {}
    /\ writing' = {}
    /\ UNCHANGED <<run, site, diskVars, uiVars, done, discVars, grids, idx,
                   polls, attempted, skipped, failed, ledgerAtStart,
                   lastTrig, renamed, marked, returned, throttled>>

\* the browser finishes writing a file (line 96)
WriteDone ==
    /\ session = "open"
    /\ \E n \in writing :
         /\ files' = [files EXCEPT ![n].complete = TRUE]
         /\ writing' = writing \ {n}
    /\ UNCHANGED <<pc, run, site, ledger, session, uiVars, inflight, done,
                   discVars, grids, idx, polls, histVars>>

-----------------------------------------------------------------------------

Program ==
    \/ StartRun
    \/ OpenSession
    \/ SessionFails
    \/ DiscBegin
    \/ DiscRaises
    \/ DiscSelectState
    \/ DiscReadCounties
    \/ DiscSelectCounty
    \/ DiscSelectCountyRaises
    \/ DiscCountiesDone
    \/ DiscReadGrids
    \/ DiscReturn
    \/ LoopSkip
    \/ LoopExport
    \/ LoopEnd
    \/ ExpSelect
    \/ ExpYears
    \/ ExpClick
    \/ PollSleep
    \/ PollEnd
    \/ CheckExists
    \/ Rename
    \/ Mark

Environment ==
    \/ UiPopulate
    \/ DownloadAppears
    \/ WriteDone

Unstopped == Program \/ Environment

Next == Unstopped \/ Stop

Spec == Init /\ [][Next]_vars

\* main() is one thread that runs until it returns: every step of the
\* program that can be taken is taken; the page and the browser owe nothing,
\* and nobody stops the process from outside
FairSpec == Init /\ [][Unstopped]_vars /\ WF_vars(Program)

-----------------------------------------------------------------------------
(* Properties *)

Completed == get_completed(ledger)

FinalOf(g) == FinalName(g, START_YEAR, END_YEAR)

\* the content stored under a name, None when there is no such file
FileAt(name) == IF name \in DOMAIN files THEN files[name] ELSE None

\* main() is past discover_all_grids
AfterDiscovery ==
    pc \in {"loop", "exp_select", "exp_years", "exp_click", "poll", "check",
            "rename", "mark", "done"}

Count(q, x) == Cardinality({i \in DOMAIN q : q[i] = x})

Pos(q, x) == CHOOSE i \in DOMAIN q : q[i] = x /\ \A j \in 1..(i - 1) : q[j] # x

\* C1: every leaf of the ledger has its artifact on disk under its final
\* name, and a leaf appended in this run was appended after this run's
\* export of it had moved the download to that name.
C1_LedgerOnlyAfterArtifact ==
    /\ \A g \in Completed : Exists(FinalOf(g))
    /\ \A g \in Completed \ done : g \in renamed

\* a leaf has just been appended to the ledger
C1_Witness == pc = "loop" /\ idx > 1 /\ grids[idx - 1] \in Completed \ done

\* C2: when the loop of a run is over, every discovered leaf that follows a
\* leaf whose export raised, and that was not in the ledger at the start of
\* the run, has been attempted in that run.
C2_FaultIsolation ==
    pc = "done" =>
        \A x \in FailedLeaves : \A j \in DOMAIN grids :
            (j > Pos(grids, x) /\ grids[j] \notin done)
                => grids[j] \in Range(attempted)

\* the export of a leaf raised and a later leaf of the same run completed
C2_Witness ==
    /\ pc = "done"
    /\ \E x \in FailedLeaves : \E j \in DOMAIN grids :
         /\ j > Pos(grids, x)
         /\ grids[j] \in Completed \ done

\* the leaves LOG_DONE held when this run started
AtStart == {r[1] : r \in Range(ReadRows(ledgerAtStart))}

\* C3: a run whose ledger holds the set S at its start attempts exactly the
\* discovered leaves outside S, calls no export for a leaf of S, and no
\* step of the run changes the file stored under the final name of a leaf
\* of S.
C3_Idempotence ==
    /\ [](Range(attempted) \cap AtStart = {})
    /\ [](pc = "done" => Range(attempted) = Range(grids) \ AtStart)
    /\ [][\A g \in AtStart' : FileAt(FinalOf(g))' = FileAt(FinalOf(g))]_vars

\* a run that started with a non-empty ledger has skipped a leaf of it and
\* attempted another leaf
C3_Witness ==
    /\ pc = "done"
    /\ AtStart \cap Range(grids) # {}
    /\ skipped # {}
    /\ attempted # <<>>

\* C4: the sequence discover_all_grids returns holds every leaf value read
\* during the walk exactly once, in the order of first occurrence in the
\* walk.
C4_Dedup ==
    AfterDiscovery =>
        /\ Range(grids) = Range(all_grids)
        /\ \A i, j \in DOMAIN grids : i # j => grids[i] # grids[j]
        /\ \A i, j \in DOMAIN grids :
              i < j => Pos(all_grids, grids[i]) < Pos(all_grids, grids[j])

\* the walk has read a leaf value under two parent contexts
C4_Witness ==
    /\ AfterDiscovery
    /\ \E g \in Range(grids) :
         /\ Count(all_grids, g) > 1
         /\ Cardinality(ParentContexts(g)) > 1

\* C5: a leaf whose export raised in this run is not in the ledger, the
\* step that handles the error leaves the ledger as it is, and the leaf is
\* not in the set of completed leaves the next run reads.
C5_FailureLeavesLedger ==
    /\ [](\A g \in FailedLeaves : g \notin Completed)
    /\ [][failed' \notin {failed, {}} => ledger' = ledger]_vars
    /\ [][run' # run => FailedLeaves \cap done' = {}]_vars

\* a run has ended in which the export of a leaf raised and another leaf
\* was appended to the ledger
C5_Witness ==
    /\ pc = "done"
    /\ failed # {}
    /\ Len(ledger) > Len(ledgerAtStart)

\* the export control has been clicked in the current call of
\* export_grid_history
Triggered == pc \in {"poll", "check", "rename", "mark"}

TimedOut == {f[1] : f \in {x \in failed : x[2] = "timeout"}}

\* C6: when the export control has been clicked for a leaf, the state and
\* the county the session had selected at the click are a parent context
\* under which the UI exposes that leaf.
C6_FullPathReselected ==
    Triggered =>
        <<lastTrig.state, lastTrig.county>> \in ParentContexts(lastTrig.gid)

\* C7: the file stored under the final name of a leaf is the download of an
\* export triggered for that leaf.
C7_ArtifactOfItsLeaf ==
    \A g \in AllLeaves : Exists(FinalOf(g)) => files[FinalOf(g)].gid = g

\* C8: no leaf of the ledger has under its final name a file that the
\* browser is still writing.
C8_RenamedAfterWriteFinished ==
    \A g \in Completed : FinalOf(g) \notin writing

\* C9: the wait loop runs at most retries times; it gives up only when the
\* file was missing in every one of them; the export that times out has
\* renamed nothing and leaves the directory as it is, and the file under a
\* final name changes only by a rename to it or by the browser finishing
\* the file it wrote.
C9_BoundedWait ==
    /\ [](polls <= retries)
    /\ [][(pc = "poll" /\ pc' = "check" /\ ~Exists(TmpName)) => polls = retries]_vars
    /\ [][TimedOut' # TimedOut /\ TimedOut' # {} => files' = files]_vars
    /\ [](\A g \in TimedOut : g \notin renamed)
    /\ [][\A g \in AllLeaves :
            FileAt(FinalOf(g))' # FileAt(FinalOf(g))
                => g \in renamed' \/ FinalOf(g) \in writing]_vars

\* the export of a leaf has timed out
C9_Witness == pc = "loop" /\ TimedOut # {} /\ ~Exists(TmpName)

\* C10: once discovery has returned the run reaches the end of main(); no
\* leaf is attempted twice in a run, and at the end every discovered leaf
\* was either in the ledger at the start and skipped, or attempted once.
C10_TerminatesEachLeafOnce ==
    /\ [](\A g \in Range(grids) : Count(attempted, g) <= 1)
    /\ [](pc = "done" =>
            \A g \in Range(grids) :
                IF g \in done
                THEN g \in skipped /\ Count(attempted, g) = 0
                ELSE g \notin skipped /\ Count(attempted, g) = 1)
    /\ (AfterDiscovery ~> pc = "done")

\* a run has ended with a failed leaf, a completed leaf and a skipped leaf
C10_Witness ==
    /\ pc = "done"
    /\ failed # {}
    /\ skipped # {}
    /\ Completed \ done # {}

\* C11: the identifiers a fresh get_completed reads from the ledger file
\* are the identifiers mark_completed was called with: each of them is
\* read back, unchanged, and nothing else is.
C11_LedgerPersistence ==
    /\ \A i \in DOMAIN marked : marked[i] \in get_completed(ledger)
    /\ \A g \in get_completed(ledger) : g \in Range(marked)

\* a later run has read back identifiers that hold a comma and a quote
C11_Witness ==
    /\ run > 1
    /\ pc = "open"
    /\ Gcomma.value \in done
    /\ Gquote.value \in done

\* the text a is the beginning of the text b
IsPrefix(a, b) == Len(a) <= Len(b) /\ SubSeq(b, 1, Len(a)) = a

\* C12: every step leaves the ledger file as it is or appends to it, and
\* the set of identifiers read from it keeps every element and gains at
\* most one.
C12_LedgerAppendOnly ==
    [][/\ IsPrefix(ledger, ledger')
       /\ get_completed(ledger) \subseteq get_completed(ledger')
       /\ Cardinality(get_completed(ledger') \ get_completed(ledger)) <= 1]_vars

\* a second run in which an export raised, with two identifiers in the
\* ledger
C12_Witness ==
    /\ run > 1
    /\ failed # {}
    /\ Cardinality(Completed) > 1

\* the files of the download directory that are artifacts of leaf g
ArtifactsOf(g) == {n \in DOMAIN files : Len(n) > 1 /\ n[2] = g}

\* C13: a leaf at which the process was stopped between the rename and the
\* ledger append, and which is not in the ledger when a later run starts, is
\* attempted by that run if the run discovers it; the rename of an export
\* puts the download under the final name in place of whatever was there,
\* so that no leaf ever has two artifacts; and a run that renamed the
\* download of such a leaf and reached its end has the leaf in the ledger.
C13_CrashRecovery ==
    /\ [](\A g \in AllLeaves : Cardinality(ArtifactsOf(g)) <= 1)
    /\ [][pc = "rename" /\ pc' = "mark" =>
            /\ FileAt(FinalOf(cur))' = FileAt(TmpName)
            /\ ~Exists(TmpName)']_vars
    /\ [](pc = "done" =>
            \A g \in (stopped \cap Range(grids)) \ AtStart :
                /\ g \in Range(attempted)
                /\ g \in renamed => g \in Completed)

\* a run has ended that exported again, and put in the ledger, a leaf at
\* which an earlier run was stopped after the rename
C13_Witness ==
    /\ pc = "done"
    /\ \E g \in stopped :
          /\ g \notin AtStart
          /\ g \in renamed
          /\ g \in Completed
          /\ FileAt(FinalOf(g)).run = run

C15_ReadsAfterPopulated ==
    /\ [][(pc \in {"disc_counties", "disc_grids"} /\ pc' = "disc_county")
              => dirty = "none"]_vars
    /\ [](AfterDiscovery => AllLeaves \subseteq Range(grids))

\* the walk of discover_all_grids over the states and their counties
InBranches == pc \in {"disc_state", "disc_counties", "disc_county", "disc_grids"}

\* C16: no step of the walk over the branches ends the run: a branch that
\* fails is left and the walk goes on with the next one.
C16_BranchIsolation ==
    [][InBranches => pc' # "aborted"]_vars

\* C17: the export control is clicked only by an export that has selected
\* its leaf and for which both years were offered; on a page that lacks the
\* start year or the end year no download is ever requested, no file
\* appears, nothing is renamed, and every attempted leaf has failed before
\* the click.
C17_TriggerAfterSelections ==
    /\ [][(pc # "poll" /\ pc' = "poll") =>
            /\ pc = "exp_click"
            /\ set_years(START_YEAR, END_YEAR)
            /\ <<cur, "select">> \notin failed'
            /\ <<cur, "years">> \notin failed']_vars
    /\ [](~set_years(START_YEAR, END_YEAR) =>
            /\ inflight = {} /\ writing = {}
            /\ DOMAIN files = {}
            /\ renamed = {} /\ returned = {}
            /\ ~Triggered
            /\ pc = "done" =>
                  \A g \in Range(attempted) :
                      <<g, "select">> \in failed \/ <<g, "years">> \in failed)

\* on a page without the end year a run has ended in which the leaves were
\* selected and failed at the years
C17_Witness ==
    /\ pc = "done"
    /\ END_YEAR \notin site.endYears
    /\ Cardinality({f \in failed : f[2] = "years"}) > 1

\* C18: when the export of a leaf is called and an export was called before
\* it in the same run, the throttle sleep has run since that earlier
\* export, whether it returned or raised.
C18_ThrottleBetweenAttempts ==
    [][(pc = "loop" /\ pc' = "exp_select" /\ attempted # <<>>) => throttled]_vars

\* the identifiers of the rows LOG_DONE has gained since this run started,
\* in file order
NewIds ==
    LET rows == ReadRows(ledger)
        old == Len(ReadRows(ledgerAtStart))
    IN  [i \in 1..(Len(rows) - old) |-> rows[old + i][1]]

\* C19: the rows the ledger file has gained in this run name discovered
\* leaves, each once, and one row comes before another exactly when its
\* leaf comes before the other's in the sequence discovery returned.
C19_LedgerInDiscoveryOrder ==
    AfterDiscovery =>
        /\ \A i \in DOMAIN NewIds : NewIds[i] \in Range(grids)
        /\ \A i, j \in DOMAIN NewIds :
              i < j <=> Pos(grids, NewIds[i]) < Pos(grids, NewIds[j])

\* a run has ended that appended two leaves and had a failed leaf
C19_Witness ==
    /\ pc = "done"
    /\ Len(NewIds) > 1
    /\ Len(grids) > 2
    /\ failed # {}

\* main() is inside the with block of driver_ctx
InWith == pc \notin {"idle", "open", "done", "aborted", "stopped"}

\* C20: a session is opened only by the first step of a run, once per run,
\* and is open only inside the with block: when main() has returned or an
\* error of the navigation or of discovery has ended the run, the session
\* that was opened is closed.
C20_SessionReleased ==
    /\ [](session = "open" => InWith)
    /\ [](pc = "done" => session = "closed")
    /\ [](pc = "aborted" => session \in {"none", "closed"})
    /\ [][(InWith /\ pc' = "aborted") => session' = "closed"]_vars
    /\ [][(session # "open" /\ session' = "open") =>
            pc = "open" /\ pc' = "discover"]_vars
    /\ [][pc' = "open" => run' = run + 1]_vars

\* an error of discovery has ended a later run, after the county options
\* had been read, and the session is closed
C20_Witness ==
    /\ pc = "aborted"
    /\ run > 1
    /\ countyQ # <<>>
    /\ session = "closed"

====
